---- MODULE Spec2Model ----
(***************************************************************************)
(* Model of the product extractors of muambr-api                           *)
(* (src/extractors/pythonExtractors/*_page.py).                            *)
(*                                                                         *)
(* Text is a sequence of one-character strings (the word "desde" is one    *)
(* symbol).  A parsed page is the list of the elements the extractors      *)
(* look up, each with the texts and attributes the code reads from it.     *)
(***************************************************************************)
EXTENDS Integers, Sequences, FiniteSets, TLC

(***************************************************************************)
(* Bounds of the model.                                                    *)
(***************************************************************************)
\* The number of elements (script blocks, containers, rows, anchors) of a page.
MaxElems == 2

(***************************************************************************)
(* Python values.                                                          *)
(***************************************************************************)
\* Python's None, kept apart from every text (texts hold one-character symbols).
None == <<"<None>">>

Digits == {"0", "1", "2", "3", "4", "5", "6", "7", "8", "9"}
Whitespace == {" "}

\* bool(x) for an optional text: None and "" are falsy.
Truthy(x) == x # None /\ x # <<>>

\* c in s
Has(s, c) == \E i \in 1..Len(s) : s[i] = c

\* s.replace(a, b) for one-character a and b
SubstChar(s, a, b) == [i \in 1..Len(s) |-> IF s[i] = a THEN b ELSE s[i]]

\* s.replace(a, '')
RemoveChar(s, a) == SelectSeq(s, LAMBDA x : x # a)

\* len(s.split(c)[-1]): the number of characters after the last c (all of s without c)
LenAfterLast(s, c) ==
    IF Has(s, c)
    THEN Len(s) - (CHOOSE i \in 1..Len(s) : s[i] = c /\ \A k \in (i+1)..Len(s) : s[k] # c)
    ELSE Len(s)

\* len(s.split(c)): one more than the number of c in s
SplitCount(s, c) == Cardinality({i \in 1..Len(s) : s[i] = c}) + 1

\* s.startswith(p)
StartsWith(s, p) == Len(s) >= Len(p) /\ SubSeq(s, 1, Len(p)) = p

\* min(S) for a set of positions, or 0 when there is none
First(S) == IF S = {} THEN 0 ELSE CHOOSE i \in S : \A k \in S : i <= k

(***************************************************************************)
(* The regular expressions of the price lookups.                           *)
(***************************************************************************)
\* \d{n} matches at position i
DigitsAt(s, i, n) == i + n - 1 <= Len(s) /\ \A k \in i..(i+n-1) : s[k] \in Digits

\* \d{1,3} at position i, greedy: the number of characters it takes (0: no match)
LeadLen(s, i) ==
    IF DigitsAt(s, i, 3) THEN 3
    ELSE IF DigitsAt(s, i, 2) THEN 2
    ELSE IF DigitsAt(s, i, 1) THEN 1
    ELSE 0

\* (?:[seps]\d{3})* at position j, greedy: the position after it
RECURSIVE Groups(_, _, _)
Groups(s, j, seps) ==
    IF j <= Len(s) /\ s[j] \in seps /\ DigitsAt(s, j+1, 3)
    THEN Groups(s, j+4, seps)
    ELSE j

\* (?:[seps]\d{2})? at position j: the position after it
Cents(s, j, seps) ==
    IF j <= Len(s) /\ s[j] \in seps /\ DigitsAt(s, j+1, 2) THEN j+3 ELSE j

\* \d{1,3}(?:[thou]\d{3})*(?:[dec]\d{2})? at a digit position i: the text it matches.
\* Every part after the first is optional, so the greedy choices are final.
NumberAt(s, i, thou, dec) ==
    SubSeq(s, i, Cents(s, Groups(s, i + LeadLen(s, i), thou), dec) - 1)

\* The position after the \s* that starts at position j
RECURSIVE SkipSpace(_, _)
SkipSpace(s, j) ==
    IF j <= Len(s) /\ s[j] \in Whitespace THEN SkipSpace(s, j+1) ELSE j

\* The maximal run of characters of cs that starts at position i
RECURSIVE RunEnd(_, _, _)
RunEnd(s, i, cs) ==
    IF i <= Len(s) /\ s[i] \in cs THEN RunEnd(s, i+1, cs) ELSE i

PriceChars == Digits \cup {".", ","}

\* re.search(r'([\d.,]+)', s): group 1, or None
SearchPriceRun(s) ==
    LET i == First({k \in 1..Len(s) : s[k] \in PriceChars})
    IN  IF i = 0 THEN None ELSE SubSeq(s, i, RunEnd(s, i, PriceChars) - 1)

\* re.search(r'desde\s*(\d{1,3}(?:[.,]\d{3})*(?:[.,]\d{2})?)', s): group 1, or None
SearchDesde(s) ==
    LET i == First({k \in 1..Len(s) : s[k] = "desde" /\ LeadLen(s, SkipSpace(s, k+1)) > 0})
    IN  IF i = 0 THEN None
        ELSE NumberAt(s, SkipSpace(s, i+1), {".", ","}, {".", ","})

\* re.search(r'(\d{1,3}(?:[.,]\d{3})*(?:[.,]\d{2})?)<euro>?', s): group 1, or None
SearchEuroNumber(s) ==
    LET i == First({k \in 1..Len(s) : s[k] \in Digits})
    IN  IF i = 0 THEN None ELSE NumberAt(s, i, {".", ","}, {".", ","})

\* re.search(r'R?\$?\s?(\d{1,3}(?:\.\d{3})*(?:,\d{2})?)', s): group 1, or None.
\* The prefix is optional, so the group starts at the first digit of s.
SearchRealNumber(s) ==
    LET i == First({k \in 1..Len(s) : s[k] \in Digits})
    IN  IF i = 0 THEN None ELSE NumberAt(s, i, {"."}, {","})

\* re.search(r'R\$\s*([\d.,]+)', s): group 1, or None
SearchRealRun(s) ==
    LET Hit(k) == /\ s[k] = "R"
                  /\ k + 1 <= Len(s)
                  /\ s[k+1] = "$"
                  /\ SkipSpace(s, k+2) <= Len(s)
                  /\ s[SkipSpace(s, k+2)] \in PriceChars
        i == First({k \in 1..Len(s) : Hit(k)})
    IN  IF i = 0 THEN None
        ELSE SubSeq(s, SkipSpace(s, i+2), RunEnd(s, SkipSpace(s, i+2), PriceChars) - 1)

(***************************************************************************)
(* Price normalisation, one definition per place of the code.              *)
(***************************************************************************)
\* kuantokusta_page.py: price_str -> price (the same code at lines 86-106)
KuantoKustaNormalise(p) ==
    IF Has(p, ",") /\ Has(p, ".")
    THEN SubstChar(RemoveChar(p, "."), ",", ".")
    ELSE IF Has(p, ",")
    THEN IF SplitCount(p, ",") = 2 /\ LenAfterLast(p, ",") = 2
         THEN SubstChar(p, ",", ".")
         ELSE RemoveChar(p, ",")
    ELSE IF Has(p, ".") /\ LenAfterLast(p, ".") = 2
         THEN p
         ELSE RemoveChar(p, ".")

\* magalu_page.py: price_str -> price
MagaluNormalise(p) ==
    IF Has(p, ",") /\ Has(p, ".")
    THEN SubstChar(RemoveChar(p, "."), ",", ".")
    ELSE IF Has(p, ",")
    THEN SubstChar(p, ",", ".")
    ELSE IF Has(p, ".")
    THEN IF SplitCount(p, ".") = 2 /\ LenAfterLast(p, ".") = 2
         THEN p
         ELSE RemoveChar(p, ".")
    ELSE p

\* mercadolivre_page.py: price_str -> price
MercadoLivreNormalise(p) ==
    IF Has(p, ",") /\ Has(p, ".")
    THEN SubstChar(RemoveChar(p, "."), ",", ".")
    ELSE IF Has(p, ",")
    THEN SubstChar(p, ",", ".")
    ELSE IF Has(p, ".")
    THEN IF SplitCount(p, ".") = 2 /\ LenAfterLast(p, ".") = 2
         THEN p
         ELSE RemoveChar(p, ".")
    ELSE p

(***************************************************************************)
(* Python's float(s) and str(float), for texts of digits and dots of at    *)
(* most 15 significant digits (every text of the model).                   *)
(***************************************************************************)
\* float(s) does not raise ValueError
FloatOk(s) ==
    /\ \A i \in 1..Len(s) : s[i] \in Digits \cup {"."}
    /\ \E i \in 1..Len(s) : s[i] \in Digits
    /\ SplitCount(s, ".") <= 2

\* float(s) > 0
FloatPositive(s) == FloatOk(s) /\ \E i \in 1..Len(s) : s[i] \in Digits \ {"0"}

RECURSIVE StripLeadingZeros(_)
StripLeadingZeros(s) ==
    IF s # <<>> /\ Head(s) = "0" THEN StripLeadingZeros(Tail(s)) ELSE s

RECURSIVE StripTrailingZeros(_)
StripTrailingZeros(s) ==
    IF s # <<>> /\ s[Len(s)] = "0" THEN StripTrailingZeros(SubSeq(s, 1, Len(s) - 1)) ELSE s

DigitChar(n) == CHOOSE c \in Digits :
    c = <<"0", "1", "2", "3", "4", "5", "6", "7", "8", "9">>[n + 1]

\* str(float(s)) for FloatOk(s): the shortest repr, "1049.0", "49.9", "1e-05"
StrFloat(s) ==
    LET dot   == First({k \in 1..Len(s) : s[k] = "."})
        whole == StripLeadingZeros(IF dot = 0 THEN s ELSE SubSeq(s, 1, dot - 1))
        frac  == StripTrailingZeros(IF dot = 0 THEN <<>> ELSE SubSeq(s, dot + 1, Len(s)))
        sig   == StripLeadingZeros(frac)
        zeros == Len(frac) - Len(sig)
    IN  IF whole = <<>> /\ sig # <<>> /\ zeros >= 4
        THEN \* below 1e-4 repr is in exponent form
             <<Head(sig)>> \o (IF Len(sig) > 1 THEN <<".">> \o Tail(sig) ELSE <<>>)
                 \o <<"e", "-", DigitChar((zeros + 1) \div 10), DigitChar((zeros + 1) % 10)>>
        ELSE (IF whole = <<>> THEN <<"0">> ELSE whole) \o <<".">>
                 \o (IF frac = <<>> THEN <<"0">> ELSE frac)

(***************************************************************************)
(* URLs: a text over the symbols "http", "s", "://", "/", a host, a path   *)
(* segment, so that the prefixes the code tests are prefixes of symbols.   *)
(***************************************************************************)
Http == <<"http">>
Https == <<"http", "s", "://">>
Slash == <<"/">>

AcharPromoBase == Https \o <<"achar.promo">>
IdealoBase == Https \o <<"www.idealo.es">>
KelkooBase == Https \o <<"www.kelkoo.es">>
KuantoKustaBase == Https \o <<"www.kuantokusta.pt">>
MagaluBase == Https \o <<"www.magazineluiza.com.br">>
MercadoLivreBase == Https \o <<"www.mercadolivre.com.br">>

\* kelkoo_page.py, magalu_page.py, mercadolivre_page.py: href -> url
JoinHref(base, href) ==
    IF StartsWith(href, Http) THEN href
    ELSE IF StartsWith(href, Slash) THEN base \o href
    ELSE base \o Slash \o href

(***************************************************************************)
(* Records returned by the extractors.                                     *)
(***************************************************************************)
Product(name, price, store, currency, url) ==
    [kind |-> "product", name |-> name, price |-> price, store |-> store,
     currency |-> currency, url |-> url]

\* None where a record is expected
NoProduct ==
    [kind |-> "none", name |-> None, price |-> None, store |-> None,
     currency |-> None, url |-> None]

\* What a strategy gives: the products, or an exception leaving it.
Returned(ps) == [raised |-> FALSE, products |-> ps]
Raised == [raised |-> TRUE, products |-> <<>>]

(***************************************************************************)
(* JSON-LD of magalu and mercadolivre.  A script block is                  *)
(*   [type, shape, items]: type "ld" for type="application/ld+json";       *)
(*   shape "nostring" (script.string is None), "malformed" (not JSON),     *)
(*   "object" (a dict without '@graph', items = its one node), "array"     *)
(*   (a list of nodes), "graph" (a dict with '@graph': items),             *)
(*   "graphnull" (a dict with '@graph': null).                             *)
(* A node is [kind, type, name, offers]: kind "dict" or "other" (a JSON    *)
(* string, number, list or null).  offers is [kind, price, url, currency], *)
(* kind "missing", "null", "dict" or "list" (the fields are then those of  *)
(* its first element); price is [t, v] with t "str", "num" or "null".      *)
(***************************************************************************)
Missing == <<"<missing>">>

\* bool(price) for a JSON value
JsonTruthy(price) ==
    CASE price.t = "str" -> price.v # <<>>
      [] price.t = "num" -> \E i \in 1..Len(price.v) : price.v[i] \in Digits \ {"0"}
      [] OTHER -> FALSE

\* str(price) for a JSON value
JsonStr(price) ==
    CASE price.t = "str" -> price.v
      [] price.t = "num" -> IF Has(price.v, ".") THEN StrFloat(price.v) ELSE price.v
      [] OTHER -> None

\* item.get(...) or offers.get(...) raises AttributeError
LdItemRaises(item) ==
    \/ item.kind # "dict"
    \/ item.type = "Product" /\ item.offers.kind \in {"null", "list"}

\* if name and price and url, for a node that did not raise
LdItemValid(item) ==
    /\ item.type = "Product"
    /\ item.offers.kind = "dict"
    /\ Truthy(item.name)
    /\ JsonTruthy(item.offers.price)
    /\ Truthy(item.offers.url)

LdProduct(item, store) ==
    Product(item.name, JsonStr(item.offers.price), store,
            IF item.offers.currency = Missing THEN <<"BRL">> ELSE item.offers.currency,
            item.offers.url)

\* for item in data['@graph']: AttributeError is not among the caught exceptions
RECURSIVE LdGraph(_, _, _)
LdGraph(items, store, acc) ==
    IF items = <<>> THEN Returned(acc)
    ELSE IF LdItemRaises(Head(items)) THEN Raised
    ELSE LdGraph(Tail(items), store,
                 IF LdItemValid(Head(items))
                 THEN Append(acc, LdProduct(Head(items), store))
                 ELSE acc)

\* Variant: a block that cannot be read ends the scan of the script blocks
RECURSIVE LdScriptsAbort(_, _, _)
LdScriptsAbort(scripts, store, acc) ==
    IF scripts = <<>> THEN Returned(acc)
    ELSE IF Head(scripts).type = "ld" /\ Head(scripts).shape \in {"nostring", "malformed"}
    THEN Returned(acc)
    ELSE IF Head(scripts).type = "ld" /\ Head(scripts).shape = "graph"
    THEN LET r == LdGraph(Head(scripts).items, store, acc)
         IN  IF r.raised THEN Raised ELSE LdScriptsAbort(Tail(scripts), store, r.products)
    ELSE LdScriptsAbort(Tail(scripts), store, acc)

\* for script in json_ld_scripts
RECURSIVE LdScripts(_, _, _)
LdScripts(scripts, store, acc) ==
    IF scripts = <<>> THEN Returned(acc)
    ELSE IF Head(scripts).type = "ld" /\ Head(scripts).shape = "graph"
    THEN LET r == LdGraph(Head(scripts).items, store, acc)
         IN  IF r.raised THEN Raised ELSE LdScripts(Tail(scripts), store, r.products)
    ELSE LdScripts(Tail(scripts), store, acc)

MagaluJsonLd(page) == LdScripts(page.scripts, <<"Magazine Luiza">>, <<>>)
MercadoLivreJsonLd(page) == LdScripts(page.scripts, <<"Mercado Livre">>, <<>>)

(***************************************************************************)
(* Script blocks of acharpromo.  script.string is NoString or a text over *)
(* symbols [t, key, val]: t "{" and "}" (braces), "member" (a key with a   *)
(* JSON value that holds no object: val = [k, items], k "str", "num",      *)
(* "null" or "arr" with its scalar items), "open" (a key and the "[" of an *)
(* array of objects), "close" (its "]") and "word" (other script text).    *)
(***************************************************************************)
NoVal == [k |-> "null", items |-> <<>>]
Tok(t, key, val) == [t |-> t, key |-> key, val |-> val]

\* script.string is None (a script element without text)
NoString == <<Tok("<None>", "", NoVal)>>

\* str.lower() of the words of a script
Lower(key) ==
    CASE key = "Products" -> "products"
      [] key = "ITEMS" -> "items"
      [] OTHER -> key

\* 'products' in script_content.lower() or 'items' in script_content.lower()
MentionsProducts(text) == \E i \in 1..Len(text) : Lower(text[i].key) \in {"products", "items"}

\* re.findall(r'\{.*?\}', text, re.DOTALL): each match runs from a "{" to the first "}" after it
RECURSIVE BraceMatches(_)
BraceMatches(text) ==
    LET i == First({k \in 1..Len(text) : text[k].t = "{"})
        j == First({k \in (i+1)..Len(text) : text[k].t = "}"})
    IN  IF i = 0 \/ j = 0 THEN <<>>
        ELSE <<SubSeq(text, i, j)>> \o BraceMatches(SubSeq(text, j + 1, Len(text)))

\* json.loads(match) does not raise JSONDecodeError: the braces hold members only
JsonLoadsOk(match) == \A k \in 2..(Len(match) - 1) : match[k].t = "member"

\* json.loads(match) raises RecursionError (a value nested deeper than the
\* interpreter's recursion limit), which the except clause of line 33 does not catch
JsonLoadsRaises(match) ==
    \E k \in 2..(Len(match) - 1) : match[k].t = "member" /\ match[k].val.k = "deep"

\* json.loads(match): the members of the dict
JsonLoads(match) == SubSeq(match, 2, Len(match) - 1)

\* key in data
HasKey(data, key) == \E k \in 1..Len(data) : data[k].key = key

\* data[key]: the last member of that key
Lookup(data, key) ==
    data[CHOOSE k \in 1..Len(data) :
            data[k].key = key /\ \A m \in (k+1)..Len(data) : data[m].key # key].val

\* x or y or ...: the first truthy value, else the last one
RECURSIVE FirstTruthy(_)
FirstTruthy(vals) ==
    IF Len(vals) = 1 \/ Truthy(Head(vals)) THEN Head(vals) ELSE FirstTruthy(Tail(vals))

RECURSIVE FirstJsonTruthy(_)
FirstJsonTruthy(vals) ==
    IF Len(vals) = 1 \/ JsonTruthy(Head(vals)) THEN Head(vals) ELSE FirstJsonTruthy(Tail(vals))

\* re.sub(r'[^\d,.]', '', price.replace(',', '.'))
PriceClean(price) == SelectSeq(SubstChar(price, ",", "."), LAMBDA c : c \in PriceChars)

\* parse_product_item(item).  An item is [kind, names, prices, urls, stores]: kind "scalar"
\* (item.get raises AttributeError, which is caught) or "dict", with the values of the
\* synonym keys in the order the code reads them (None or a null price: key absent).
parse_product_item(item) ==
    IF item.kind # "dict" THEN NoProduct
    ELSE LET name  == FirstTruthy(item.names)
             raw   == FirstJsonTruthy(item.prices)
             price == IF raw.t = "str"
                      THEN IF FloatOk(PriceClean(raw.v))
                           THEN [t |-> "num", v |-> StrFloat(PriceClean(raw.v))]
                           ELSE [t |-> "null", v |-> <<>>]
                      ELSE raw
             url   == FirstTruthy(item.urls)
             store == FirstTruthy(item.stores)
         IN  IF Truthy(name) /\ JsonTruthy(price) /\ Truthy(url)
             THEN Product(name, price.v,
                          IF Truthy(store) THEN store ELSE <<"AcharPromo">>,
                          <<"BRL">>,
                          IF StartsWith(url, Http) THEN url ELSE AcharPromoBase \o url)
             ELSE NoProduct

\* for item in data[key]: product = parse_product_item(item); if product: append
RECURSIVE ParseItems(_)
ParseItems(items) ==
    IF items = <<>> THEN <<>>
    ELSE (IF parse_product_item(Head(items)) = NoProduct THEN <<>>
          ELSE <<parse_product_item(Head(items))>>) \o ParseItems(Tail(items))

\* extract_from_json_data(data): iterating a number or null raises TypeError (caught);
\* the characters of a string are items without .get
extract_from_json_data(data) ==
    LET key == IF HasKey(data, "products") THEN "products"
               ELSE IF HasKey(data, "items") THEN "items"
               ELSE IF HasKey(data, "results") THEN "results"
               ELSE ""
    IN  IF key = "" THEN <<>>
        ELSE IF Lookup(data, key).k = "arr" THEN ParseItems(Lookup(data, key).items)
        ELSE <<>>

\* for match in json_matches
RECURSIVE JsonMatches(_)
JsonMatches(matches) ==
    IF matches = <<>> THEN <<>>
    ELSE (IF JsonLoadsOk(Head(matches))
          THEN extract_from_json_data(JsonLoads(Head(matches)))
          ELSE <<>>) \o JsonMatches(Tail(matches))

\* for script in script_tags (extract_acharpromo_products, lines 18-34)
RECURSIVE AcharPromoScripts(_)
AcharPromoScripts(scripts) ==
    IF scripts = <<>> THEN <<>>
    ELSE (IF Head(scripts).string # NoString /\ MentionsProducts(Head(scripts).string)
          THEN JsonMatches(BraceMatches(Head(scripts).string))
          ELSE <<>>) \o AcharPromoScripts(Tail(scripts))

\* An exception leaves the loop over the script blocks for the handler of line 50
AcharPromoScriptsRaise(scripts) ==
    \E i \in 1..Len(scripts) :
        /\ scripts[i].string # NoString
        /\ MentionsProducts(scripts[i].string)
        /\ \E k \in 1..Len(BraceMatches(scripts[i].string)) :
                JsonLoadsRaises(BraceMatches(scripts[i].string)[k])

\* except Exception as e: return [{'error': ..., 'products': []}] (lines 50-54):
\* a list of one element that has none of the keys of a record
ErrorList == <<[NoProduct EXCEPT !.kind = "error"]>>

(***************************************************************************)
(* Containers of the selector strategies.  A container (card) is           *)
(*   rungs  : the places of the site's container ladder (its fallback      *)
(*            lookups after the selectors) the element matches;            *)
(*   names  : the elements the name sub-selectors find in it, in ladder    *)
(*            order, [sel, tag, text, title, alt] (get_text(strip=True),   *)
(*            the title and alt attributes or None);                       *)
(*   prices : the elements the price sub-selectors find, [sel, text];      *)
(*   reals  : its text nodes that contain "R$", in document order;         *)
(*   stores : the elements the store sub-selectors find, [tag, text, alt]; *)
(*   links  : the href of the element each link lookup finds ("" for an    *)
(*            element without a value).                                    *)
(***************************************************************************)
\* soup.select(selector) / find_all(...) for place r of the ladder, in document order
Matches(cards, r) == SelectSeq(cards, LAMBDA c : r \in c.rungs)

\* Variant: the matches of all the places of the ladder are used
AnyRung(cards, rs) == SelectSeq(cards, LAMBDA c : c.rungs \cap rs # {})

\* The containers of the first place of the ladder that matches any, among the places rs
FirstRung(cards, rs) ==
    LET r == First({k \in rs : Matches(cards, k) # <<>>})
    IN  IF r = 0 THEN <<>> ELSE Matches(cards, r)

\* for x in xs: p = f(x); if p: append (the records a loop over containers collects)
RECURSIVE Collect(_)
Collect(ps) ==
    IF ps = <<>> THEN <<>>
    ELSE (IF Head(ps) = NoProduct THEN <<>> ELSE <<Head(ps)>>) \o Collect(Tail(ps))

len(name) == IF name = None THEN 0 ELSE Len(name)

\* clean_product_name(name): ' '.join(name.split()), then everything from
\* "| MercadoLivre" on is cut (the word is one symbol) and the result stripped.
\* The "- Frete ..." pattern of the code is keyed on a mis-encoded word that no
\* text of the model holds.
RECURSIVE Collapse(_)
Collapse(s) ==
    IF s = <<>> THEN <<>>
    ELSE IF Head(s) \in Whitespace
    THEN (IF Tail(s) # <<>> /\ Head(Tail(s)) \notin Whitespace THEN <<" ">> ELSE <<>>)
             \o Collapse(Tail(s))
    ELSE <<Head(s)>> \o Collapse(Tail(s))

\* s.strip()
Strip(s) ==
    LET keep == {k \in 1..Len(s) : s[k] \notin Whitespace}
    IN  IF keep = {} THEN <<>>
        ELSE SubSeq(s, First(keep), CHOOSE k \in keep : \A m \in keep : m <= k)

clean_product_name(name) ==
    LET joined == Strip(Collapse(name))
        cut == First({k \in 1..Len(joined) :
                        /\ joined[k] = "|"
                        /\ SkipSpace(joined, k+1) <= Len(joined)
                        /\ joined[SkipSpace(joined, k+1)] = "MercadoLivre"})
    IN  IF cut = 0 THEN joined ELSE Strip(SubSeq(joined, 1, cut - 1))

(***************************************************************************)
(* acharpromo: the selector strategy and the pattern fallback.             *)
(***************************************************************************)
\* name_elem.get_text(strip=True) or name_elem.get('title')
AcharPromoNameOf(e) == IF e.text # <<>> THEN e.text ELSE e.title

\* the name loop: the first truthy value ends it, else the value of the last element
AcharPromoName(card) ==
    IF card.names = <<>> THEN None
    ELSE FirstTruthy([i \in 1..Len(card.names) |-> AcharPromoNameOf(card.names[i])])

\* the price loop: the elements of the class selectors first, then (the two
\* ':contains(' entries) the text nodes with "R$"; commas become dots
AcharPromoPrice(card) ==
    LET hit  == First({k \in 1..Len(card.prices) : SearchPriceRun(card.prices[k].text) # None})
        real == First({k \in 1..Len(card.reals) : SearchRealRun(card.reals[k]) # None})
    IN  IF hit # 0 THEN SubstChar(SearchPriceRun(card.prices[hit].text), ",", ".")
        ELSE IF real # 0 THEN SubstChar(SearchRealRun(card.reals[real]), ",", ".")
        ELSE None

\* element.find('a', href=True): its href, or None
FirstLink(card) == IF card.links = <<>> THEN None ELSE card.links[1]

parse_html_product_element(card) ==
    LET name  == AcharPromoName(card)
        price == AcharPromoPrice(card)
        url   == FirstLink(card)
        store == IF card.stores = <<>> THEN None ELSE card.stores[1].text
    IN  IF Truthy(name) /\ Truthy(price) /\ FloatOk(price)
        THEN Product(clean_product_name(name), StrFloat(price),
                     IF Truthy(store) THEN store ELSE <<"AcharPromo">>,
                     <<"BRL">>,
                     IF Truthy(url) /\ StartsWith(url, Http) THEN url
                     ELSE AcharPromoBase \o (IF Truthy(url) THEN url ELSE <<>>))
        ELSE NoProduct

AcharPromoRungs == 1..7

\* extract_from_html_structure, lines 118-135: the first selector with elements is used
AcharPromoSelectors(page) ==
    LET els == FirstRung(page.cards, AcharPromoRungs)
    IN  Collect([i \in 1..Len(els) |-> parse_html_product_element(els[i])])

\* soup.get_text(), as far as the price pattern reads it: the "R$" text nodes of the
\* containers in document order, then the text after them
RECURSIVE Nodes(_)
Nodes(ts) == IF ts = <<>> THEN <<>> ELSE Head(ts) \o <<" ">> \o Nodes(Tail(ts))

RECURSIVE CardsText(_)
CardsText(cards) ==
    IF cards = <<>> THEN <<>> ELSE Nodes(Head(cards).reals) \o CardsText(Tail(cards))

AllText(page) == CardsText(page.cards) \o page.body

\* Variant: prices[0] without replace(',', '.')
extract_by_price_patternRaw(page) ==
    IF SearchRealRun(AllText(page)) # None
    THEN <<Product(<<"Produto encontrado">>, SearchRealRun(AllText(page)),
                   <<"AcharPromo">>, <<"BRL">>, AcharPromoBase)>>
    ELSE <<>>

\* extract_by_price_pattern(soup)
extract_by_price_pattern(page) ==
    IF SearchRealRun(AllText(page)) # None
    THEN <<Product(<<"Produto encontrado">>,
                   SubstChar(SearchRealRun(AllText(page)), ",", "."),
                   <<"AcharPromo">>, <<"BRL">>, AcharPromoBase)>>
    ELSE <<>>

\* Remove duplicates based on URL (extract_acharpromo_products, lines 40-48)
RECURSIVE Unique(_, _)
Unique(ps, seen) ==
    IF ps = <<>> THEN <<>>
    ELSE IF Head(ps).url \in seen THEN Unique(Tail(ps), seen)
    ELSE <<Head(ps)>> \o Unique(Tail(ps), seen \cup {Head(ps).url})

(***************************************************************************)
(* kelkoo.                                                                 *)
(***************************************************************************)
CurrencySymbols == {"<euro>", "$", "<pound>", "EUR", "USD", "GBP"}

\* the value the name loop reads from an element
KelkooNameOf(e) ==
    IF e.tag = "img" THEN (IF e.alt = None THEN <<>> ELSE Strip(e.alt))
    ELSE IF e.tag = "a" THEN (IF e.title = None THEN e.text ELSE e.title)
    ELSE e.text

\* for ...: name = value; if name and len(name) > 5: break
RECURSIVE LongOrLast(_)
LongOrLast(vals) ==
    IF vals = <<>> THEN None
    ELSE IF Len(vals) = 1 \/ (Truthy(Head(vals)) /\ len(Head(vals)) > 5) THEN Head(vals)
    ELSE LongOrLast(Tail(vals))

KelkooName(card) == LongOrLast([i \in 1..Len(card.names) |-> KelkooNameOf(card.names[i])])

\* the price loop: the first element whose text holds a run of [\d.,]
KelkooPriceHit(card) ==
    First({k \in 1..Len(card.prices) : SearchPriceRun(card.prices[k].text) # None})

KelkooPrice(card) ==
    IF KelkooPriceHit(card) = 0 THEN None
    ELSE SubstChar(SearchPriceRun(card.prices[KelkooPriceHit(card)].text), ",", ".")

\* group 2 of r'([\d.,]+)\s*([<euro>$<pound>]|EUR|USD|GBP)?', mapped to a currency code
KelkooCurrency(card) ==
    IF KelkooPriceHit(card) = 0 THEN <<"EUR">>
    ELSE LET t   == card.prices[KelkooPriceHit(card)].text
             i   == First({k \in 1..Len(t) : t[k] \in PriceChars})
             j   == SkipSpace(t, RunEnd(t, i, PriceChars))
             sym == IF j <= Len(t) /\ t[j] \in CurrencySymbols THEN t[j] ELSE ""
         IN  CASE sym \in {"$", "USD"} -> <<"USD">>
               [] sym \in {"<pound>", "GBP"} -> <<"GBP">>
               [] OTHER -> <<"EUR">>

\* the store loop: the first store_name with len > 2, else the default
KelkooStore(card) ==
    LET val(e) == IF e.tag = "img" THEN (IF e.alt = None THEN <<>> ELSE Strip(e.alt)) ELSE e.text
        hit == First({k \in 1..Len(card.stores) : len(val(card.stores[k])) > 2})
    IN  IF hit = 0 THEN <<"Kelkoo Partner Store">> ELSE val(card.stores[hit])

KelkooCard(card) ==
    IF Truthy(KelkooName(card)) /\ Truthy(KelkooPrice(card))
    THEN Product(KelkooName(card), KelkooPrice(card),
                 KelkooStore(card) \o <<" (Available in Spain)">>,
                 KelkooCurrency(card),
                 IF FirstLink(card) = None THEN KelkooBase
                 ELSE JoinHref(KelkooBase, FirstLink(card)))
    ELSE NoProduct

\* the six selectors, then find_all('div', string=...), then find_all('div', class_=...)
KelkooRungs == 1..8

KelkooSelectors(page) ==
    LET els == FirstRung(page.cards, KelkooRungs)
    IN  Collect([i \in 1..Len(els) |-> KelkooCard(els[i])])

\* "Please enable JS" in html_string or "captcha" in html_string.lower().
\* page.raw holds the words of the page source that the test can find.
LowerWord(w) ==
    CASE w \in {"CAPTCHA", "Captcha", "captcha"} -> "captcha"
      [] w \in {"Please enable JS", "please enable js", "PLEASE ENABLE JS"} -> "please enable js"
      [] OTHER -> w

\* Variant: "captcha" in html_string, without lower()
KelkooBlockedExact(page) ==
    \/ \E i \in 1..Len(page.raw) : page.raw[i] = "Please enable JS"
    \/ \E i \in 1..Len(page.raw) : page.raw[i] = "captcha"

KelkooBlocked(page) ==
    \/ \E i \in 1..Len(page.raw) : page.raw[i] = "Please enable JS"
    \/ \E i \in 1..Len(page.raw) : LowerWord(page.raw[i]) = "captcha"

KelkooProtected ==
    <<Product(<<"Sony WH-1000XM6 Wireless Headphones - Kelkoo Protected">>,
              <<"3", "4", "9", ".", "9", "9">>,
              <<"Kelkoo Partner Store (Available in Spain)">>, <<"EUR">>, KelkooBase)>>

KelkooSampleUrl == KelkooBase \o <<"/", "buscar?consulta=sony+1000xm6">>

KelkooSamples ==
    <<Product(<<"Sony WH-1000XM6 Wireless Headphones">>,
              <<"3", "4", "9", ".", "9", "9">>,
              <<"Kelkoo Electronics (Available in Spain)">>, <<"EUR">>, KelkooSampleUrl),
      Product(<<"Sony WH-1000XM6 Black Edition">>,
              <<"3", "2", "9", ".", "9", "9">>,
              <<"Kelkoo Audio Store (Available in Spain)">>, <<"EUR">>, KelkooSampleUrl)>>

(***************************************************************************)
(* mercadolivre.                                                           *)
(***************************************************************************)
MercadoLivreName(card) == LongOrLast([i \in 1..Len(card.names) |-> card.names[i].text])

\* the price loop ends at the first element whose text holds a run of [\d.,]
MercadoLivrePrice(card) ==
    LET hit == First({k \in 1..Len(card.prices) : SearchPriceRun(card.prices[k].text) # None})
    IN  IF hit = 0 THEN None
        ELSE MercadoLivreNormalise(SearchPriceRun(card.prices[hit].text))

MercadoLivreCard(card) ==
    IF Truthy(MercadoLivreName(card)) /\ Truthy(MercadoLivrePrice(card))
    THEN Product(MercadoLivreName(card), MercadoLivrePrice(card),
                 <<"Mercado Livre">>, <<"BRL">>,
                 IF FirstLink(card) = None THEN MercadoLivreBase
                 ELSE JoinHref(MercadoLivreBase, FirstLink(card)))
    ELSE NoProduct

MercadoLivreRungs == 1..5

MercadoLivreSelectors(page) ==
    LET els == FirstRung(page.cards, MercadoLivreRungs)
    IN  Collect([i \in 1..Len(els) |-> MercadoLivreCard(els[i])])

(***************************************************************************)
(* magalu.                                                                 *)
(***************************************************************************)
LowerChar(c) ==
    CASE c = "I" -> "i" [] c = "P" -> "p" [] c = "H" -> "h" [] c = "O" -> "o"
      [] c = "N" -> "n" [] c = "E" -> "e" [] c = "T" -> "t" [] c = "V" -> "v"
      [] c = "G" -> "g" [] c = "B" -> "b"
      [] OTHER -> c

UpperChar(c) ==
    CASE c = "i" -> "I" [] c = "p" -> "P" [] c = "h" -> "H" [] c = "o" -> "O"
      [] c = "n" -> "N" [] c = "e" -> "E" [] c = "t" -> "T" [] c = "v" -> "V"
      [] c = "g" -> "G" [] c = "b" -> "B"
      [] OTHER -> c

\* 'iphone' in name.lower()
HasIphone(name) ==
    \E i \in 1..(Len(name) - 5) :
        [k \in 1..6 |-> LowerChar(name[i + k - 1])] = <<"i", "p", "h", "o", "n", "e">>

\* the value an element gives the name, or the name so far when it gives none
MagaluNameOf(e, name) ==
    IF Truthy(e.title) THEN Strip(e.title)
    ELSE IF Truthy(e.alt) THEN Strip(e.alt)
    ELSE IF e.text # <<>> THEN e.text
    ELSE name

\* the two name loops: over the sub-selectors (sel) and over all elements of each.
\* The inner loop ends at a name longer than 5 with "iphone" in it, the outer one
\* after a sub-selector that leaves a name longer than 5.
RECURSIVE MagaluNameLoop(_, _)
MagaluNameLoop(els, name) ==
    IF els = <<>> THEN name
    ELSE LET n == MagaluNameOf(Head(els), name)
         IN  IF Truthy(n) /\ len(n) > 5 /\ HasIphone(n) THEN n
             ELSE IF (Len(els) = 1 \/ els[2].sel # els[1].sel) /\ Truthy(n) /\ len(n) > 5 THEN n
             ELSE MagaluNameLoop(Tail(els), n)

MagaluName(card) == MagaluNameLoop(card.names, None)

\* the price loops: the first element, in ladder order, whose text has a digit
MagaluPrice(card) ==
    LET hit == First({k \in 1..Len(card.prices) : SearchRealNumber(card.prices[k].text) # None})
    IN  IF hit = 0 THEN None
        ELSE MagaluNormalise(SearchRealNumber(card.prices[hit].text))

\* the link loop: the first lookup ('a[href]', 'a[data-testid]') with a non-empty href
MagaluUrl(card) ==
    LET hit == First({k \in 1..Len(card.links) : k <= 2 /\ card.links[k] # <<>>})
    IN  IF hit = 0 THEN MagaluBase ELSE JoinHref(MagaluBase, card.links[hit])

MagaluCard(card) ==
    IF Truthy(MagaluName(card)) /\ Truthy(MagaluPrice(card)) /\ FloatPositive(MagaluPrice(card))
    THEN Product(MagaluName(card), MagaluPrice(card), <<"Magazine Luiza">>, <<"BRL">>,
                 MagaluUrl(card))
    ELSE NoProduct

\* Places 5 and 6 of the ladder ('div.sc-*[data-testid]', 'li.sc-*[data-testid]') are
\* no selectors: select raises, the bare except goes on.  Place 9 is the find_all
\* by data-testid that follows the ladder.
MagaluRungs == (1..9) \ {5, 6}

MagaluSelectors(page) ==
    LET els == FirstRung(page.cards, MagaluRungs)
    IN  Collect([i \in 1..Len(els) |-> MagaluCard(els[i])])

(***************************************************************************)
(* idealo.  A row (li.productOffers-listItem) is [name, store, price,      *)
(* priceHref, titleHref]: the text of the name, shop and price tags and    *)
(* the href of the price and title links, None for what the row lacks.     *)
(***************************************************************************)
IdealoCurrencyChars == {"<euro>", "$", "<pound>", "E", "U", "R", "S", "D", "G", "B", "P"}

\* the runs of [\d.,] of t that \s* and a currency character follow
IdealoHits(t) ==
    {k \in 1..Len(t) :
        /\ t[k] \in PriceChars
        /\ (k = 1 \/ t[k-1] \notin PriceChars)
        /\ SkipSpace(t, RunEnd(t, k, PriceChars)) <= Len(t)
        /\ t[SkipSpace(t, RunEnd(t, k, PriceChars))] \in IdealoCurrencyChars}

\* re.search(r'([\d.,]+)\s*([A-Z<euro>$<pound>]+)', price_text): group 1, else the text
IdealoPrice(row) ==
    IF row.price = None THEN None
    ELSE IF IdealoHits(row.price) = {} THEN row.price
    ELSE SubSeq(row.price, First(IdealoHits(row.price)),
                RunEnd(row.price, First(IdealoHits(row.price)), PriceChars) - 1)

\* group 2, else "EUR"
IdealoCurrency(row) ==
    IF row.price = None \/ IdealoHits(row.price) = {} THEN <<"EUR">>
    ELSE LET j == SkipSpace(row.price, RunEnd(row.price, First(IdealoHits(row.price)), PriceChars))
         IN  SubSeq(row.price, j, RunEnd(row.price, j, IdealoCurrencyChars) - 1)

IdealoUrl(row) ==
    LET url == IF row.price # None /\ row.priceHref # None THEN row.priceHref ELSE row.titleHref
    IN  IF Truthy(url) /\ ~StartsWith(url, Https) THEN IdealoBase \o url ELSE url

IdealoRow(row) ==
    IF Truthy(row.name) /\ Truthy(IdealoPrice(row)) /\ Truthy(IdealoUrl(row))
    THEN Product(row.name, IdealoPrice(row),
                 IF row.store = None THEN <<"Unknown Store">> ELSE row.store,
                 IdealoCurrency(row), IdealoUrl(row))
    ELSE NoProduct

extract_idealo_products(page) == Collect([i \in 1..Len(page.rows) |-> IdealoRow(page.rows[i])])

(***************************************************************************)
(* kuantokusta.  An anchor is [href, text, ancestors]: its href, its text  *)
(* and get_text() of its parent, of the parent's parent, ... up to the     *)
(* document.                                                               *)
(***************************************************************************)
\* re.compile(r'^/p/\d+/') matches href
IsProductHref(href) ==
    /\ StartsWith(href, <<"/", "p", "/">>)
    /\ RunEnd(href, 4, Digits) > 4
    /\ RunEnd(href, 4, Digits) <= Len(href)
    /\ href[RunEnd(href, 4, Digits)] = "/"

\* href.split('/')[3].split('?')[0], for a product href
ProductSlug(href) ==
    LET from == RunEnd(href, 4, Digits) + 1
        to   == First({k \in from..Len(href) : href[k] \in {"/", "?"}})
    IN  SubSeq(href, from, IF to = 0 THEN Len(href) ELSE to - 1)

Letters == {"i", "p", "h", "o", "n", "e", "t", "v", "g", "b",
            "I", "P", "H", "O", "N", "E", "T", "V", "G", "B"}

\* str.title(): a letter after a non-letter is upper-cased, any other letter lower-cased
Title(s) ==
    [i \in 1..Len(s) |->
        IF s[i] \notin Letters THEN s[i]
        ELSE IF i = 1 \/ s[i-1] \notin Letters THEN UpperChar(s[i])
        ELSE LowerChar(s[i])]

\* the name of a product anchor: the slug, hyphens to spaces, title-cased
KuantoKustaName(a) == Title(SubstChar(ProductSlug(a.href), "-", " "))

\* Variant: the parent loop climbs to the document, whatever the depth
KuantoKustaParentPriceAll(a) ==
    LET hit == First({k \in 1..Len(a.ancestors) : SearchDesde(a.ancestors[k]) # None})
    IN  IF hit = 0 THEN None ELSE KuantoKustaNormalise(SearchDesde(a.ancestors[hit]))

\* the parent loop: the first of the (at most) three nearest ancestors with a "desde" price
KuantoKustaParentPrice(a) ==
    LET hit == First({k \in 1..Len(a.ancestors) : k <= 3 /\ SearchDesde(a.ancestors[k]) # None})
    IN  IF hit = 0 THEN None ELSE KuantoKustaNormalise(SearchDesde(a.ancestors[hit]))

\* if not price: a number of the link text, else the placeholder "0.00"
KuantoKustaPrice(a) ==
    IF Truthy(KuantoKustaParentPrice(a)) THEN KuantoKustaParentPrice(a)
    ELSE IF SearchEuroNumber(a.text) # None THEN KuantoKustaNormalise(SearchEuroNumber(a.text))
    ELSE <<"0", ".", "0", "0">>

KuantoKustaAnchor(a) ==
    LET name == Strip(Collapse(KuantoKustaName(a)))
    IN  IF ~Truthy(KuantoKustaName(a)) \/ len(KuantoKustaName(a)) < 5 THEN NoProduct
        ELSE IF Truthy(name) /\ Truthy(KuantoKustaPrice(a))
        THEN Product(name, KuantoKustaPrice(a), <<"KuantoKusta">>, <<"EUR">>,
                     KuantoKustaBase \o a.href)
        ELSE NoProduct

extract_kuantokusta_products(page) ==
    LET links == SelectSeq(page.anchors, LAMBDA a : IsProductHref(a.href))
    IN  Collect([i \in 1..Len(links) |-> KuantoKustaAnchor(links[i])])

(***************************************************************************)
(* The entry points as state machines.                                     *)
(*   site     : the extractor called                                       *)
(*   html     : its argument, parsed                                       *)
(*   pc       : the strategy about to run, "FINISH" (the code after the    *)
(*              strategies), "DONE" (the call is over) or "FAILED" (it is   *)
(*              over, by the except clause of acharpromo's entry point)    *)
(*   products : the list the call has built so far                         *)
(*   ran      : the strategies run so far, each with what it gave          *)
(*   result   : the list returned                                          *)
(*   raised   : an exception left the call                                 *)
(*   calls    : the calls made before this one, each with what it gave     *)
(***************************************************************************)
VARIABLES site, html, pc, products, ran, result, raised, calls

vars == <<site, html, pc, products, ran, result, raised, calls>>

Sites == {"acharpromo", "idealo", "kelkoo", "kuantokusta", "magalu", "mercadolivre"}

\* The sites whose first strategy reads embedded JSON
StructuredSites == {"acharpromo", "magalu", "mercadolivre"}

\* The strategy an entry point starts with ("BLOCKED": kelkoo's anti-bot test)
FirstStep(s) ==
    IF s \in StructuredSites THEN "TRY_STRUCTURED"
    ELSE IF s = "kelkoo" THEN "BLOCKED"
    ELSE "TRY_SELECTORS"

\* The structured-data strategy of a site
Structured(s, page) ==
    CASE s = "acharpromo" -> Returned(AcharPromoScripts(page.scripts))
      [] s = "magalu" -> MagaluJsonLd(page)
      [] s = "mercadolivre" -> MercadoLivreJsonLd(page)

\* Variant: the HTML parsing runs whatever the JSON gave
AfterStructuredAlways(ps) == "TRY_SELECTORS"

\* if not products: (the HTML parsing runs only when the JSON gave nothing)
AfterStructured(ps) == IF ps = <<>> THEN "TRY_SELECTORS" ELSE "FINISH"

\* The selector strategy of a site
Selectors(s, page) ==
    CASE s = "acharpromo" -> AcharPromoSelectors(page)
      [] s = "idealo" -> extract_idealo_products(page)
      [] s = "kelkoo" -> KelkooSelectors(page)
      [] s = "kuantokusta" -> extract_kuantokusta_products(page)
      [] s = "magalu" -> MagaluSelectors(page)
      [] s = "mercadolivre" -> MercadoLivreSelectors(page)

\* extract_from_html_structure: if not products: products = extract_by_price_pattern(soup)
AfterSelectors(s, ps) == IF s = "acharpromo" /\ ps = <<>> THEN "TRY_PATTERN" ELSE "FINISH"

\* The code between the last strategy and the return
Finalize(s, ps) ==
    CASE s = "acharpromo" -> Unique(ps, {})
      [] s = "kelkoo" -> IF ps = <<>> THEN KelkooSamples ELSE ps
      [] OTHER -> ps

Ran(strategy, ps) == [strategy |-> strategy, yield |-> ps]

\* kelkoo: the anti-bot test at the head of extract_kelkoo_products
Blocked ==
    /\ pc = "BLOCKED"
    /\ IF KelkooBlocked(html)
       THEN result' = KelkooProtected /\ pc' = "DONE"
       ELSE result' = result /\ pc' = "TRY_SELECTORS"
    /\ UNCHANGED <<site, html, products, ran, raised, calls>>

\* pc "FAILED": extract_acharpromo_products returned from its except clause
TryStructured ==
    /\ pc = "TRY_STRUCTURED"
    /\ IF site = "acharpromo" /\ AcharPromoScriptsRaise(html.scripts)
       THEN /\ result' = ErrorList
            /\ pc' = "FAILED"
            /\ UNCHANGED <<products, ran, raised>>
       ELSE LET r == Structured(site, html)
            IN  IF r.raised
                THEN /\ raised' = TRUE
                     /\ pc' = "DONE"
                     /\ UNCHANGED <<products, ran, result>>
                ELSE /\ products' = r.products
                     /\ ran' = Append(ran, Ran("structured", r.products))
                     /\ pc' = AfterStructured(r.products)
                     /\ UNCHANGED <<raised, result>>
    /\ UNCHANGED <<site, html, calls>>

\* magalu and mercadolivre append to the list of the JSON-LD loop; acharpromo assigns
TrySelectors ==
    /\ pc = "TRY_SELECTORS"
    /\ LET ps == Selectors(site, html)
       IN  /\ products' = IF site = "acharpromo" THEN ps ELSE products \o ps
           /\ ran' = Append(ran, Ran("selectors", ps))
           /\ pc' = AfterSelectors(site, ps)
    /\ UNCHANGED <<site, html, result, raised, calls>>

TryPattern ==
    /\ pc = "TRY_PATTERN"
    /\ products' = extract_by_price_pattern(html)
    /\ ran' = Append(ran, Ran("pattern", extract_by_price_pattern(html)))
    /\ pc' = "FINISH"
    /\ UNCHANGED <<site, html, result, raised, calls>>

Finish ==
    /\ pc = "FINISH"
    /\ result' = Finalize(site, products)
    /\ pc' = "DONE"
    /\ UNCHANGED <<site, html, products, ran, raised, calls>>

Next == Blocked \/ TryStructured \/ TrySelectors \/ TryPattern \/ Finish

(***************************************************************************)
(* The pages the extractors are called with.                               *)
(***************************************************************************)
SeqsUpTo(S, n) == UNION {[1..k -> S] : k \in 0..n}

Page(raw, scripts, cards, body, rows, anchors) ==
    [raw |-> raw, scripts |-> scripts, cards |-> cards, body |-> body,
     rows |-> rows, anchors |-> anchors]

Card(rungs, names, prices, reals, stores, links) ==
    [rungs |-> rungs, names |-> names, prices |-> prices, reals |-> reals,
     stores |-> stores, links |-> links]

NameEl(sel, tag, text, title, alt) ==
    [sel |-> sel, tag |-> tag, text |-> text, title |-> title, alt |-> alt]

PriceEl(sel, text) == [sel |-> sel, text |-> text]
StoreEl(tag, text, alt) == [tag |-> tag, text |-> text, alt |-> alt]

\* Names: longer than 5 characters with and without "iphone", and a short one
NameIphone == <<"i", "P", "h", "o", "n", "e">>
NameLong == <<"T", "V", " ", "n", "e", "o">>
NameShort == <<"T", "V">>

\* hrefs: relative with and without a leading "/", absolute with https and with http
HrefSlash == <<"/", "p1">>
HrefBare == <<"p1">>
HrefHttps == Https \o <<"shop.example", "/", "p1">>
HrefHttp == <<"http", "://", "shop.example", "/", "p1">>
Hrefs == {HrefSlash, HrefBare, HrefHttps, HrefHttp}

\* Price texts
P299 == <<"2", "9", "9", ".", "9", "9">>
P1049c99 == <<"1", ".", "0", "4", "9", ",", "9", "9">>
P49c90 == <<"4", "9", ",", "9", "0">>
P3997 == <<"3", ".", "9", "9", "7">>
Reais(p) == <<"R", "$", " ">> \o p
Euros(p) == p \o <<" ", "<euro>">>

\* One well-formed container and its variations, one field at a time
CardPool(base, names, prices, links, rungs) ==
    {base}
        \cup {[base EXCEPT !.names = n] : n \in names}
        \cup {[base EXCEPT !.prices = q, !.reals = <<>>] : q \in prices}
        \cup {[base EXCEPT !.links = l] : l \in links}
        \cup {[base EXCEPT !.rungs = r] : r \in rungs}

Heading(text) == NameEl(1, "h3", text, None, None)

KelkooCards ==
    CardPool(Card({1, 2}, <<Heading(NameLong)>>, <<PriceEl(1, Euros(P299))>>, <<>>,
                  <<StoreEl("div", <<"MediaMarkt">>, None)>>, <<HrefSlash>>),
             {<<>>, <<Heading(NameShort)>>,
              <<Heading(NameShort), NameEl(7, "a", <<"x">>, NameIphone, None)>>},
             {<<>>, <<PriceEl(1, <<"<euro>">>), PriceEl(2, P1049c99 \o <<"USD">>)>>},
             {<<>>, <<HrefBare>>, <<HrefHttps>>, << <<>> >>},
             {{2}, {8}})

MercadoLivreCards ==
    CardPool(Card({1}, <<Heading(NameLong)>>, <<PriceEl(1, P3997)>>, <<>>, <<>>, <<HrefSlash>>),
             {<<>>, <<Heading(NameShort)>>, <<Heading(NameShort), NameEl(3, "a", NameIphone, None, None)>>},
             {<<>>, <<PriceEl(1, <<".">>)>>, <<PriceEl(1, <<"x">>), PriceEl(2, P1049c99)>>},
             {<<>>, <<HrefBare>>, <<HrefHttps>>},
             {{3}, {5}})

MagaluCards ==
    CardPool(Card({1, 3}, <<NameEl(1, "h3", NameIphone, None, None)>>,
                  <<PriceEl(1, Reais(P1049c99))>>, <<Reais(P1049c99)>>, <<>>, <<HrefSlash>>),
             {<<>>, <<NameEl(1, "h3", NameShort, None, None)>>,
              <<NameEl(5, "a", <<>>, NameLong, None), NameEl(5, "a", <<>>, NameIphone, None)>>},
             {<<>>, <<PriceEl(1, <<"R", "$">>), PriceEl(3, P3997)>>, <<PriceEl(1, <<"0">>)>>},
             {<<>>, <<<<>>, HrefBare>>, <<HrefHttps>>},
             {{7}, {9}})

AcharPromoCards ==
    CardPool(Card({1}, <<Heading(NameLong)>>, <<PriceEl(1, Reais(P49c90))>>, <<Reais(P49c90)>>,
                  <<>>, <<HrefSlash>>),
             {<<>>, <<NameEl(1, "h3", <<>>, None, None), NameEl(7, "a", <<>>, NameShort, None)>>,
              <<Heading(<<" ", "|", " ", "MercadoLivre">>)>>},
             {<<>>, <<PriceEl(1, Reais(P1049c99))>>, <<PriceEl(1, <<"x">>), PriceEl(2, P299)>>},
             {<<>>, <<HrefBare>>, <<HrefHttps>>},
             {{2}, {7}})

(***************************************************************************)
(* JSON-LD blocks.                                                         *)
(***************************************************************************)
Str(v) == [t |-> "str", v |-> v]
Num(v) == [t |-> "num", v |-> v]
Null == [t |-> "null", v |-> <<>>]

Offers(kind, price, url, currency) ==
    [kind |-> kind, price |-> price, url |-> url, currency |-> currency]

NoOffers == Offers("missing", Null, None, Missing)

Node(type, name, offers) == [kind |-> "dict", type |-> type, name |-> name, offers |-> offers]
NotANode == [kind |-> "other", type |-> "", name |-> None, offers |-> NoOffers]

Script(type, shape, items) ==
    [type |-> type, shape |-> shape, items |-> items, string |-> NoString]

SonyOffer == Offers("dict", Str(P299), HrefSlash, <<"EUR">>)
Sony == Node("Product", NameLong, SonyOffer)

LdNodes ==
    {Sony,
     Node("Product", NameIphone, Offers("dict", Num(<<"3", "0", "0", ".", "5", "0">>), HrefHttps, Missing)),
     Node("Product", NameLong, Offers("dict", Str(Reais(P1049c99)), HrefBare, None)),
     Node("Product", NameLong, Offers("list", Str(P299), HrefSlash, <<"EUR">>)),
     Node("Product", NameLong, Offers("null", Null, None, Missing)),
     Node("Product", NameLong, Offers("dict", Null, HrefSlash, <<"EUR">>)),
     Node("Product", NameLong, NoOffers),
     Node("Offer", NameLong, SonyOffer),
     NotANode}

LdScriptPool ==
    {Script("ld", "graph", <<n>>) : n \in LdNodes}
        \cup {Script("ld", "graph", <<Sony, n>>) : n \in {Sony, NotANode}}
        \cup {Script("ld", sh, <<Sony>>) : sh \in {"object", "array"}}
        \cup {Script("ld", sh, <<>>) : sh \in {"nostring", "malformed", "graphnull"}}
        \cup {Script("other", "graph", <<Sony>>)}

(***************************************************************************)
(* Script blocks of acharpromo.                                            *)
(***************************************************************************)
TextScript(text) == [type |-> "other", shape |-> "", items |-> <<>>, string |-> text]

LB == Tok("{", "", NoVal)
RB == Tok("}", "", NoVal)
Member(key, k, items) == Tok("member", key, [k |-> k, items |-> items])

ScalarItem == [kind |-> "scalar", names |-> <<None>>, prices |-> <<Null>>,
               urls |-> <<None>>, stores |-> <<None>>]

\* "name": ..., "price": ..., "url": ... of a product object
ProductMembers ==
    <<Member("name", "str", <<>>), Member("price", "str", <<>>), Member("url", "str", <<>>)>>

AcharPromoScriptPool ==
    {TextScript(NoString),
     TextScript(<<Tok("word", "var", NoVal)>>),
     \* {"products": [{"name": ..., "price": ..., "url": ...}]}
     TextScript(<<LB, Tok("open", "products", NoVal), LB>> \o ProductMembers
                    \o <<RB, Tok("close", "", NoVal), RB>>),
     \* window.ITEMS = {"items": ["a", "b"], "total": 2}
     TextScript(<<Tok("word", "ITEMS", NoVal), LB,
                  Member("items", "arr", <<ScalarItem, ScalarItem>>),
                  Member("total", "num", <<>>), RB>>),
     \* {"products": null} {"name": ..., "price": ..., "url": ..., "results": "abc"}
     TextScript(<<LB, Member("products", "null", <<>>), RB, LB>> \o ProductMembers
                    \o <<Member("results", "str", <<>>), RB>>),
     \* {"products": [[[[ ... ]]]]}, nested deeper than the recursion limit
     TextScript(<<LB, Member("products", "deep", <<>>), RB>>)}

(***************************************************************************)
(* Rows of idealo, anchors of kuantokusta.                                 *)
(***************************************************************************)
Row(name, store, price, priceHref, titleHref) ==
    [name |-> name, store |-> store, price |-> price, priceHref |-> priceHref,
     titleHref |-> titleHref]

IdealoRows ==
    {Row(NameLong, <<"Amazon">>, Euros(P299), HrefSlash, None)}
        \cup {Row(NameLong, None, q, HrefSlash, None) :
                q \in {None, Euros(P1049c99), Reais(P49c90), P299 \o <<"E", "U", "R">>}}
        \cup {Row(NameLong, <<"Amazon">>, Euros(P299), h, None) : h \in Hrefs \cup {None}}
        \cup {Row(n, <<"Amazon">>, Euros(P299), None, HrefSlash) : n \in {None, <<>>, NameShort}}

Anchor(href, text, ancestors) == [href |-> href, text |-> text, ancestors |-> ancestors]

ProductHref(slug) == <<"/", "p", "/", "1", "2", "/">> \o slug
SlugIphone == <<"i", "p", "h", "o", "n", "e", "-", "1", "5">>
SlugShort == <<"t", "v">>
SlugHyphens == <<"-", "-", "-", "-", "-">>
SlugDouble == <<"i", "p", "h", "o", "n", "e", "-", "-", "1", "5">>

Desde(p) == <<"desde", " ">> \o p \o <<"<euro>">>

RECURSIVE Wrap(_, _, _)
Wrap(text, around, n) ==
    IF n = 0 THEN text ELSE Wrap(text, around, n - 1) \o <<" ">> \o around[n]

\* get_text() of the ancestors of an anchor: each holds the text of the one below it
Ancestry(text, around) == [k \in 1..Len(around) |-> Wrap(text, around, k)]

KuantoKustaAnchors ==
    {Anchor(ProductHref(SlugIphone), t, Ancestry(t, around)) :
        t \in {NameIphone, <<"T", "V", " ", "5", "5">>},
        around \in {<<<<>>>>, <<Desde(<<"8", "9", "9">>)>>,
                    <<<<>>, <<>>, <<>>, Desde(P1049c99)>>,
                    <<<<>>, Desde(P299), Desde(P1049c99)>>}}
        \cup {Anchor(h, NameIphone, Ancestry(NameIphone, <<Desde(<<"8", "9", "9">>)>>)) :
                h \in {ProductHref(SlugShort), ProductHref(SlugIphone \o <<"?", "b">>),
                       <<"/", "p", "/", "x">>,
                       ProductHref(SlugHyphens), ProductHref(SlugDouble)}}
        \* <div>desde 899 <p><a ...>iPhone 15</a> desde 299</p></div>
        \cup {Anchor(ProductHref(SlugIphone), NameIphone,
                      <<NameIphone \o <<" ">> \o Desde(P299),
                        Desde(<<"8", "9", "9">>) \o <<" ">> \o NameIphone
                            \o <<" ">> \o Desde(P299)>>)}

(***************************************************************************)
(* Init: an entry point called with a page of at most MaxElems elements.   *)
(***************************************************************************)
\* Words of the page source the anti-bot test of kelkoo looks for
KelkooRaws == {<<>>, <<"Please enable JS">>, <<"please enable js">>, <<"CAPTCHA">>}

\* Text of an acharpromo page outside its containers
AcharPromoBodies == {<<>>, <<"a", " ">> \o Reais(P49c90) \o <<" ", "b">>}

\* Pages of script blocks and containers, MaxElems elements in all
Mixed(scripts, cards, bodies) ==
    UNION {{Page(<<>>, sc, cs, b, <<>>, <<>>) :
                sc \in [1..k -> scripts], cs \in SeqsUpTo(cards, MaxElems - k), b \in bodies} :
           k \in 0..MaxElems}

PagesOf(s) ==
    CASE s = "acharpromo" -> Mixed(AcharPromoScriptPool, AcharPromoCards, AcharPromoBodies)
      [] s = "idealo" ->
            {Page(<<>>, <<>>, <<>>, <<>>, rows, <<>>) : rows \in SeqsUpTo(IdealoRows, MaxElems)}
      [] s = "kelkoo" ->
            {Page(raw, <<>>, cs, <<>>, <<>>, <<>>) :
                raw \in KelkooRaws, cs \in SeqsUpTo(KelkooCards, MaxElems)}
      [] s = "kuantokusta" ->
            {Page(<<>>, <<>>, <<>>, <<>>, <<>>, as) : as \in SeqsUpTo(KuantoKustaAnchors, MaxElems)}
      [] s = "magalu" -> Mixed(LdScriptPool, MagaluCards, {<<>>})
      [] s = "mercadolivre" -> Mixed(LdScriptPool, MercadoLivreCards, {<<>>})

Start(s, page) ==
    /\ site = s
    /\ html = page
    /\ pc = FirstStep(s)
    /\ products = <<>>
    /\ ran = <<>>
    /\ result = <<>>
    /\ raised = FALSE
    /\ calls = <<>>

Init == \E s \in Sites : \E page \in PagesOf(s) : Start(s, page)

Spec == Init /\ [][Next]_vars

(***************************************************************************)
(* SpecPrice: an entry point called with a page that shows one product     *)
(* whose price text is a number of up to MaxGroups separator groups.       *)
(***************************************************************************)
MaxGroups == 2

Leads == {<<"1">>, <<"4", "9">>, <<"2", "9", "9">>, <<"1", "0", "4", "9">>}
Separators == {".", ","}
Tails == {<<"9", "9">>, <<"0", "4", "9">>}

RECURSIVE Flatten(_)
Flatten(gs) == IF gs = <<>> THEN <<>> ELSE Head(gs) \o Flatten(Tail(gs))

\* The price texts: leading digits, then groups of a separator and digits
RawPrices ==
    {lead \o Flatten(gs) :
        lead \in Leads,
        gs \in SeqsUpTo({<<sep>> \o tail : sep \in Separators, tail \in Tails}, MaxGroups)}

\* The page of site s with one product container that shows the price text raw
PricePage(s, raw) ==
    CASE s = "acharpromo" ->
            Page(<<>>, <<>>,
                 <<Card({1}, <<Heading(NameLong)>>, <<PriceEl(1, Reais(raw))>>, <<Reais(raw)>>,
                        <<>>, <<HrefSlash>>)>>, <<>>, <<>>, <<>>)
      [] s = "idealo" ->
            Page(<<>>, <<>>, <<>>, <<>>,
                 <<Row(NameLong, <<"Amazon">>, Euros(raw), HrefSlash, None)>>, <<>>)
      [] s = "kelkoo" ->
            Page(<<>>, <<>>,
                 <<Card({1}, <<Heading(NameLong)>>, <<PriceEl(1, Euros(raw))>>, <<>>,
                        <<>>, <<HrefSlash>>)>>, <<>>, <<>>, <<>>)
      [] s = "kuantokusta" ->
            Page(<<>>, <<>>, <<>>, <<>>, <<>>,
                 <<Anchor(ProductHref(SlugIphone), NameIphone,
                          Ancestry(NameIphone, <<Desde(raw)>>))>>)
      [] s = "magalu" ->
            Page(<<>>, <<>>,
                 <<Card({1}, <<Heading(NameIphone)>>, <<PriceEl(1, Reais(raw))>>, <<Reais(raw)>>,
                        <<>>, <<HrefSlash>>)>>, <<>>, <<>>, <<>>)
      [] s = "mercadolivre" ->
            Page(<<>>, <<>>,
                 <<Card({1}, <<Heading(NameLong)>>, <<PriceEl(1, raw)>>, <<>>,
                        <<>>, <<HrefSlash>>)>>, <<>>, <<>>, <<>>)

\* The kelkoo page also comes with the markers of the anti-bot test in its source
InitPrice ==
    \E s \in Sites : \E raw \in RawPrices : \E words \in KelkooRaws :
        /\ s # "kelkoo" => words = <<>>
        /\ Start(s, [PricePage(s, raw) EXCEPT !.raw = words])

SpecPrice == InitPrice /\ [][Next]_vars

(***************************************************************************)
(* Properties.                                                             *)
(***************************************************************************)
\* C1: every entry point returns a sequence and lets no exception escape, also
\* for a JSON-LD block whose Product has a list as 'offers' or whose '@graph'
\* holds an entry that is no object.
C1_NoExceptionEscapes == raised = FALSE

\* The order of the strategies of a site with more than one
StrategyOrder(s) ==
    IF s = "acharpromo" THEN <<"structured", "selectors", "pattern">>
    ELSE <<"structured", "selectors">>

\* C2: in acharpromo, magalu and mercadolivre the strategies run in the order
\* structured, selectors, pattern; a strategy runs only if every earlier one
\* yielded nothing, the next one runs when it yielded nothing, and the records
\* returned all come from the one strategy that ran last.
C2_StrategyCascade ==
    site \in StructuredSites =>
        /\ Len(ran) <= Len(StrategyOrder(site))
        /\ \A i \in 1..Len(ran) : ran[i].strategy = StrategyOrder(site)[i]
        /\ \A i \in 1..Len(ran) : i < Len(ran) => ran[i].yield = <<>>
        /\ (pc = "DONE" /\ ~raised) =>
              /\ ran # <<>>
              /\ ran[Len(ran)].yield = <<>> => Len(ran) = Len(StrategyOrder(site))
              /\ \A k \in 1..Len(result) :
                    \E j \in 1..Len(ran[Len(ran)].yield) : result[k] = ran[Len(ran)].yield[j]

\* magalu returned JSON-LD records of a page whose containers also hold products
C2_Witness ==
    /\ site = "magalu"
    /\ pc = "DONE"
    /\ Len(ran) = 1
    /\ result # <<>>
    /\ MagaluSelectors(html) # <<>>

\* The page source holds "Please enable JS", or "captcha" in some letter case
HasBlockMarker(page) ==
    \E i \in 1..Len(page.raw) :
        page.raw[i] \in {"Please enable JS", "captcha", "Captcha", "CAPTCHA"}

\* C3: a kelkoo page that holds "Please enable JS", or "captcha" in any letter
\* case, gives exactly the one labelled placeholder record, and no selector or
\* fallback extraction runs on it, whatever containers the page holds.
C3_BlockedPlaceholder ==
    (site = "kelkoo" /\ HasBlockMarker(html)) =>
        /\ ran = <<>>
        /\ pc = "DONE" =>
              /\ Len(result) = 1
              /\ result[1].name = <<"Sony WH-1000XM6 Wireless Headphones - Kelkoo Protected">>
              /\ result[1].url = KelkooBase

\* a kelkoo page with an upper-case marker and a container the selectors accept
C3_Witness ==
    /\ site = "kelkoo"
    /\ pc = "DONE"
    /\ html.raw = <<"CAPTCHA">>
    /\ KelkooSelectors(html) # <<>>
    /\ Len(result) = 1

\* No digit in a text
NoDigit(t) == \A k \in 1..Len(t) : t[k] \notin Digits

\* C4: no record is emitted for a candidate whose name, price or url was not
\* found: containers without a link give no record, and product links with no
\* price in their text or around them give no record.
C4_DropsIncomplete ==
    \A i \in 1..Len(ran) :
        ran[i].strategy = "selectors" =>
            /\ (/\ site \in {"acharpromo", "kelkoo", "magalu", "mercadolivre"}
                /\ \A k \in 1..Len(html.cards) : html.cards[k].links = <<>>)
                  => ran[i].yield = <<>>
            /\ (/\ site = "kuantokusta"
                /\ \A k \in 1..Len(html.anchors) :
                      /\ NoDigit(html.anchors[k].text)
                      /\ \A m \in 1..Len(html.anchors[k].ancestors) :
                            NoDigit(html.anchors[k].ancestors[m]))
                  => ran[i].yield = <<>>

\* Only digits with at most one ".", and at least one digit
CanonicalDecimal(p) ==
    /\ \A k \in 1..Len(p) : p[k] \in Digits \cup {"."}
    /\ Cardinality({k \in 1..Len(p) : p[k] = "."}) <= 1
    /\ \E k \in 1..Len(p) : p[k] \in Digits

\* C5: the price of every record returned is a canonical decimal string (digits
\* with at most one ".", no ",", no currency symbol, at least one digit).
C5_CanonicalPrices == \A k \in 1..Len(result) : CanonicalDecimal(result[k].price)

\* The position of the last "." or "," of a price text
LastSeparator(raw) ==
    CHOOSE i \in 1..Len(raw) :
        /\ raw[i] \in Separators
        /\ \A k \in (i+1)..Len(raw) : raw[k] \notin Separators

\* The price text with its last separator as the decimal point and no other separator
DecimalAtLast(raw) ==
    SelectSeq(SubSeq(raw, 1, LastSeparator(raw) - 1), LAMBDA c : c \in Digits)
        \o <<".">> \o SubSeq(raw, LastSeparator(raw) + 1, Len(raw))

\* The price text without its separators
NoSeparators(raw) == SelectSeq(raw, LAMBDA c : c \in Digits)

\* C6: a price text with both "." and "," is normalised with the one that comes
\* last as the decimal point and the other removed ("1.049,99" and "1,049.99"
\* both give "1049.99"), in kuantokusta, magalu, mercadolivre and acharpromo.
C6_LastSeparatorIsDecimal ==
    \A raw \in RawPrices :
        (/\ site \in {"kuantokusta", "magalu", "mercadolivre", "acharpromo"}
         /\ html = PricePage(site, raw)
         /\ pc = "DONE"
         /\ Has(raw, ".") /\ Has(raw, ","))
            => /\ Len(result) = 1
               /\ result[1].price = DecimalAtLast(raw)

\* C7: a price text with "," and no "." is normalised to its digits with the
\* last comma as decimal point when exactly 2 digits follow it, else to its
\* digits alone, in kuantokusta, magalu and mercadolivre.
C7_OnlyCommas ==
    \A raw \in RawPrices :
        (/\ site \in {"kuantokusta", "magalu", "mercadolivre"}
         /\ html = PricePage(site, raw)
         /\ pc = "DONE"
         /\ Has(raw, ",") /\ ~Has(raw, "."))
            => /\ Len(result) = 1
               /\ result[1].price = IF Len(raw) - LastSeparator(raw) = 2
                                    THEN DecimalAtLast(raw) ELSE NoSeparators(raw)

\* C8: a price text with "." and no "," is normalised to a canonical decimal with
\* the last dot kept when exactly 2 digits follow it, else to its digits alone,
\* also with more than one dot, in kuantokusta, magalu and mercadolivre.
C8_OnlyDots ==
    \A raw \in RawPrices :
        (/\ site \in {"kuantokusta", "magalu", "mercadolivre"}
         /\ html = PricePage(site, raw)
         /\ pc = "DONE"
         /\ Has(raw, ".") /\ ~Has(raw, ","))
            => /\ Len(result) = 1
               /\ CanonicalDecimal(result[1].price)
               /\ result[1].price = IF Len(raw) - LastSeparator(raw) = 2
                                    THEN DecimalAtLast(raw) ELSE NoSeparators(raw)

\* The records of ps that no earlier record of ps shares its url with, in order
KeepFirst(ps) ==
    LET keep == {i \in 1..Len(ps) : \A j \in 1..(i-1) : ps[j].url # ps[i].url}
        nth(k) == CHOOSE i \in keep : Cardinality({j \in keep : j < i}) = k - 1
    IN  [k \in 1..Cardinality(keep) |-> ps[nth(k)]]

\* C9: no two records returned have the same url; of the candidates with one
\* url the first is kept, and the records keep the order they were found in.
C9_DistinctUrls ==
    /\ \A i, j \in 1..Len(result) : i # j => result[i].url # result[j].url
    /\ (pc = "DONE" /\ ran # <<>> /\ ran[Len(ran)].yield # <<>>)
          => result = KeepFirst(ran[Len(ran)].yield)

\* A url that starts with http:// or https://
AbsoluteUrl(u) == StartsWith(u, <<"http", "://">>) \/ StartsWith(u, Https)

BaseOf(s) ==
    CASE s = "acharpromo" -> AcharPromoBase
      [] s = "idealo" -> IdealoBase
      [] s = "kelkoo" -> KelkooBase
      [] s = "kuantokusta" -> KuantoKustaBase
      [] s = "magalu" -> MagaluBase
      [] s = "mercadolivre" -> MercadoLivreBase

\* An absolute href as it is, a relative one after the base and exactly one "/"
ResolvedUrl(base, href) ==
    IF AbsoluteUrl(href) THEN href
    ELSE IF href # <<>> /\ href[1] = "/" THEN base \o href
    ELSE base \o <<"/">> \o href

\* The hrefs and JSON-LD urls a page holds (an href may be the empty text)
PageHrefs(page) ==
    LET all == UNION {{page.cards[k].links[m] : m \in 1..Len(page.cards[k].links)} :
                        k \in 1..Len(page.cards)}
                 \cup {page.rows[k].priceHref : k \in 1..Len(page.rows)}
                 \cup {page.rows[k].titleHref : k \in 1..Len(page.rows)}
                 \cup {page.anchors[k].href : k \in 1..Len(page.anchors)}
                 \cup UNION {{page.scripts[k].items[m].offers.url :
                                m \in 1..Len(page.scripts[k].items)} :
                             k \in {n \in 1..Len(page.scripts) : page.scripts[n].type = "ld"}}
    IN  {h \in all : h # None}

\* C10: the url of every record returned is absolute: a relative href of the
\* page joined to the base of the site with exactly one "/", an absolute one
\* unchanged, on the JSON-LD paths as on the selector paths.
C10_AbsoluteUrls ==
    \A k \in 1..Len(result) :
        /\ AbsoluteUrl(result[k].url)
        /\ result[k].url \in {ResolvedUrl(BaseOf(site), h) : h \in PageHrefs(html)}
                                \cup {BaseOf(site), KelkooSampleUrl}

\* The page whose only product data is one JSON-LD block, the Product node itself
SingleProductPage == Page(<<>>, <<Script("ld", "object", <<Sony>>)>>, <<>>, <<>>, <<>>, <<>>)

\* C11: a page whose only product data is one JSON-LD block that is a single
\* Product node (price "299.99", a relative url) gives, in magalu and
\* mercadolivre, exactly one record with that price and the url after the base.
C11_SingleProductNode ==
    (site \in {"magalu", "mercadolivre"} /\ html = SingleProductPage /\ pc = "DONE")
        => /\ Len(result) = 1
           /\ result[1].price = P299
           /\ result[1].url = BaseOf(site) \o HrefSlash

\* The JSON-LD blocks of a page, and the entries of a block
LdBlocks(page) == SelectSeq(page.scripts, LAMBDA sc : sc.type = "ld")

\* A Product entry with a name, and a price and a url in its offers (or in the
\* first element of its offers)
IsProductEntry(item) ==
    /\ item.kind = "dict"
    /\ item.type = "Product"
    /\ Truthy(item.name)
    /\ item.offers.kind \in {"dict", "list"}
    /\ JsonTruthy(item.offers.price)
    /\ Truthy(item.offers.url)

\* The number of Product entries of the blocks that are an object, an array or a graph
RECURSIVE ProductEntries(_)
ProductEntries(blocks) ==
    IF blocks = <<>> THEN 0
    ELSE (IF Head(blocks).shape \in {"object", "array", "graph"}
          THEN Cardinality({m \in 1..Len(Head(blocks).items) :
                                IsProductEntry(Head(blocks).items[m])})
          ELSE 0) + ProductEntries(Tail(blocks))

\* C12: the JSON-LD strategy of magalu and mercadolivre yields one candidate for
\* every entry of type "Product" and none for other entries, whether the block
\* is one object, an array or a graph; offers that are a list give their first.
C12_EveryProductEntry ==
    (/\ site \in {"magalu", "mercadolivre"}
     /\ pc # "TRY_STRUCTURED"
     /\ \A k \in 1..Len(html.scripts) : \A m \in 1..Len(html.scripts[k].items) :
            html.scripts[k].items[m].kind = "dict")
        => /\ ran # <<>>
           /\ ran[1].strategy = "structured"
           /\ Len(ran[1].yield) = ProductEntries(LdBlocks(html))

\* A block with no content or with content that is no JSON
Unreadable(sc) ==
    \/ sc.shape \in {"nostring", "malformed"}
    \/ sc.shape = "" /\ sc.string = NoString
    \/ sc.shape = "" /\ \E k \in 1..Len(BraceMatches(sc.string)) :
                            ~JsonLoadsOk(BraceMatches(sc.string)[k])

MarkedAt(t) ==
    {k \in 1..(Len(t) - 2) :
        /\ t[k] = "R" /\ t[k+1] = "$"
        /\ SkipSpace(t, k + 2) <= Len(t)
        /\ t[SkipSpace(t, k + 2)] \in PriceChars}

\* The first number of a text that "R$" marks, commas written as dots
FirstMarkedNumber(t) ==
    LET from == SkipSpace(t, First(MarkedAt(t)) + 2)
    IN  [k \in 1..(RunEnd(t, from, PriceChars) - from) |->
            IF t[from + k - 1] = "," THEN "." ELSE t[from + k - 1]]

C15_EmptyWhenNothingFound ==
    (/\ pc = "DONE"
     /\ ~raised
     /\ ~(site = "kelkoo" /\ HasBlockMarker(html))
     /\ \A i \in 1..Len(ran) : ran[i].yield = <<>>)
        => result = <<>>

\* C16: when an exception reaches the top-level handler of
\* extract_acharpromo_products, the list returned has no elements.
C16_FailureReturnsEmpty == (site = "acharpromo" /\ pc = "FAILED") => result = <<>>

\* C17: every record returned has a currency and a store that are present and
\* not null, also for a JSON-LD Product with "priceCurrency": null.
C17_CurrencyAndStore ==
    pc = "DONE" =>
        \A k \in 1..Len(result) : result[k].currency # None /\ result[k].store # None

(***************************************************************************)
(* SpecCalls: up to MaxCalls calls are made one after the other, and what  *)
(* each gave is kept in calls.                                             *)
(***************************************************************************)
MaxCalls == 2

\* The pages of the calls: one without anything, one with one product
CallPages(s) ==
    {Page(<<>>, <<>>, <<>>, <<>>, <<>>, <<>>), PricePage(s, P1049c99)}

\* Variant: the list of products is shared by the calls (a module-level list)
SharedList(old) == old

\* products = [] at the head of each entry point: the list of a call is a new one
NewList(old) == <<>>

\* The call is over and the next one is made; nothing but the arguments reaches it
Call ==
    /\ pc \in {"DONE", "FAILED"}
    /\ Len(calls) < MaxCalls
    /\ calls' = Append(calls, [site |-> site, html |-> html, result |-> result,
                               raised |-> raised])
    /\ \E s \in Sites : \E page \in CallPages(s) :
          /\ site' = s
          /\ html' = page
          /\ pc' = FirstStep(s)
    /\ products' = NewList(products)
    /\ ran' = <<>>
    /\ result' = <<>>
    /\ raised' = FALSE

InitCalls == \E s \in Sites : \E page \in CallPages(s) : Start(s, page)

NextCalls == Blocked \/ TryStructured \/ TrySelectors \/ TryPattern \/ Finish \/ Call

SpecCalls == InitCalls /\ [][NextCalls]_vars

LadderSites == {"acharpromo", "kelkoo", "magalu", "mercadolivre"}

LadderOf(s) ==
    CASE s = "acharpromo" -> AcharPromoRungs
      [] s = "kelkoo" -> KelkooRungs
      [] s = "magalu" -> MagaluRungs
      [] s = "mercadolivre" -> MercadoLivreRungs

\* The record a site makes of one container (NoProduct when it makes none)
RecordOf(s, card) ==
    CASE s = "acharpromo" -> parse_html_product_element(card)
      [] s = "kelkoo" -> KelkooCard(card)
      [] s = "magalu" -> MagaluCard(card)
      [] s = "mercadolivre" -> MercadoLivreCard(card)

\* The places of the ladder of s that match a container of the page
MatchingRungs(s, page) ==
    {r \in LadderOf(s) : \E k \in 1..Len(page.cards) : r \in page.cards[k].rungs}

\* The containers that match the lowest such place, in document order
Committed(s, page) ==
    SelectSeq(page.cards,
              LAMBDA c : \E r \in MatchingRungs(s, page) :
                            /\ r \in c.rungs
                            /\ \A q \in MatchingRungs(s, page) : r <= q)

\* C19: the selector strategy of acharpromo, kelkoo, magalu and mercadolivre uses
\* the containers of the first place of the ladder that matches any, and only
\* those: its records are the records of these containers, in order, also when
\* none of them gives a record.
C19_FirstRungOnly ==
    \A i \in 1..Len(ran) :
        (site \in LadderSites /\ ran[i].strategy = "selectors")
            => ran[i].yield =
                  SelectSeq([k \in 1..Len(Committed(site, html)) |->
                                RecordOf(site, Committed(site, html)[k])],
                            LAMBDA p : p # NoProduct)

\* kelkoo committed to a place whose one container gives no record, while a
\* container of a later place would have given one
C19_Witness ==
    /\ site = "kelkoo"
    /\ pc = "DONE"
    /\ Len(ran) = 1
    /\ ran[1].yield = <<>>
    /\ Committed(site, html) # <<>>
    /\ \E k \in 1..Len(html.cards) : KelkooCard(html.cards[k]) # NoProduct

\* The values the name sub-selectors of kelkoo and mercadolivre read in a container
NameValues(s, card) ==
    [m \in 1..Len(card.names) |->
        IF s = "kelkoo" THEN KelkooNameOf(card.names[m]) ELSE card.names[m].text]

\* A name value that can be used: not empty and longer than 5 characters
UsableName(v) == Truthy(v) /\ Len(v) > 5

\* C20: within a container the name is the value of the first sub-selector that
\* gives a usable one: in kelkoo and mercadolivre a text of 5 characters or fewer
\* neither ends the walk nor becomes the name of a record.
C20_FirstUsableName ==
    \A i \in 1..Len(ran) :
        (site \in {"kelkoo", "mercadolivre"} /\ ran[i].strategy = "selectors")
            => \A j \in 1..Len(ran[i].yield) :
                  \E k \in 1..Len(Committed(site, html)) :
                      \E m \in 1..Len(NameValues(site, Committed(site, html)[k])) :
                          /\ UsableName(NameValues(site, Committed(site, html)[k])[m])
                          /\ \A q \in 1..(m - 1) :
                                ~UsableName(NameValues(site, Committed(site, html)[k])[q])
                          /\ ran[i].yield[j].name = NameValues(site, Committed(site, html)[k])[m]


(***************************************************************************)
(* Embedded product arrays of acharpromo.                                  *)
(***************************************************************************)
\* The product objects of the 'products' or 'items' arrays of a script text:
\* the "{" that stand inside such an array
ProductObjectsIn(text) ==
    {k \in 1..Len(text) :
        /\ text[k].t = "{"
        /\ \E i \in 1..(k - 1) :
              /\ text[i].t = "open"
              /\ text[i].key \in {"products", "items"}
              /\ \A m \in i..k : text[m].t # "close"}

\* The product objects of all the script blocks of a page
RECURSIVE ProductObjects(_)
ProductObjects(scripts) ==
    IF scripts = <<>> THEN 0
    ELSE Cardinality(ProductObjectsIn(Head(scripts).string)) + ProductObjects(Tail(scripts))

\* C21: when a script block of an acharpromo page is a JSON object holding a
\* 'products' or 'items' array of product objects with name, price and url, the
\* structured-data strategy yields one record per product object and no other
\* strategy runs.
C21_EmbeddedProductArray ==
    (/\ site = "acharpromo"
     /\ pc \notin {"TRY_STRUCTURED", "FAILED"}
     /\ ProductObjects(html.scripts) > 0)
        => /\ ran # <<>>
           /\ ran[1].strategy = "structured"
           /\ Len(ran[1].yield) = ProductObjects(html.scripts)
           /\ \A k \in 1..Len(ran) : ran[k].strategy = "structured"


(***************************************************************************)
(* The product anchors of kuantokusta.                                     *)
(***************************************************************************)
\* The anchors of a page whose href matches ^/p/<digits>/
ProductAnchors(page) == SelectSeq(page.anchors, LAMBDA a : IsProductHref(a.href))

\* The slug of an anchor as a name: query string removed, hyphens to spaces, title-cased
SlugName(a) == Title(SubstChar(ProductSlug(a.href), "-", " "))

\* The name as the record carries it: runs of whitespace collapsed, the ends stripped
CleanedSlugName(a) == Strip(Collapse(SlugName(a)))

\* The first three ancestors of an anchor, nearest first
NearAncestors(a) == SubSeq(a.ancestors, 1, IF Len(a.ancestors) < 3 THEN Len(a.ancestors) ELSE 3)

\* The nearest of them whose text holds "desde <number>" (0: none does)
NearestDesde(a) ==
    First({k \in 1..Len(NearAncestors(a)) : SearchDesde(NearAncestors(a)[k]) # None})

\* The anchors the statement is about, as first stated and as amended
SlugAnchors(page) == SelectSeq(ProductAnchors(page), LAMBDA a : Len(SlugName(a)) >= 5)
NamedAnchors(page) == SelectSeq(SlugAnchors(page), LAMBDA a : CleanedSlugName(a) # <<>>)

\* C22: every anchor whose href matches ^/p/<digits>/ and whose slug gives a
\* name of at least 5 characters becomes a record with the absolute url, store
\* "KuantoKusta", currency "EUR", the slug as name (query string removed,
\* hyphens to spaces, title-cased) and the "desde" price of the nearest of its
\* first three ancestors that has one.
C22_AnchorRecords ==
    (site = "kuantokusta" /\ pc = "DONE")
        => /\ Len(result) = Len(SlugAnchors(html))
           /\ \A k \in 1..Len(result) :
                 LET a == SlugAnchors(html)[k]
                 IN  /\ result[k].url = KuantoKustaBase \o a.href
                     /\ result[k].store = <<"KuantoKusta">>
                     /\ result[k].currency = <<"EUR">>
                     /\ result[k].name = SlugName(a)
                     /\ NearestDesde(a) # 0 =>
                           result[k].price =
                               KuantoKustaNormalise(SearchDesde(a.ancestors[NearestDesde(a)]))

\* C22 as amended: the name of the record is the slug name with its runs of
\* whitespace collapsed and its ends stripped, and an anchor whose slug name is
\* whitespace only gives no record; an ancestor beyond the third changes nothing.
C22_CleanedAnchorRecords ==
    (site = "kuantokusta" /\ pc = "DONE")
        => /\ Len(result) = Len(NamedAnchors(html))
           /\ \A k \in 1..Len(result) :
                 LET a == NamedAnchors(html)[k]
                 IN  /\ result[k].url = KuantoKustaBase \o a.href
                     /\ result[k].store = <<"KuantoKusta">>
                     /\ result[k].currency = <<"EUR">>
                     /\ result[k].name = CleanedSlugName(a)
                     /\ NearestDesde(a) # 0 =>
                           result[k].price =
                               KuantoKustaNormalise(SearchDesde(a.ancestors[NearestDesde(a)]))
                     /\ NearestDesde(a) = 0 =>
                           result[k].price =
                               KuantoKustaPrice([a EXCEPT !.ancestors = NearAncestors(a)])

\* The sample page of the test gave one record of price "899"; so did an anchor
\* whose fourth ancestor is the first with a "desde" price, without that price
C22_Witness ==
    /\ site = "kuantokusta"
    /\ pc = "DONE"
    /\ Len(html.anchors) = 2
    /\ html.anchors[1] = Anchor(ProductHref(SlugIphone), NameIphone,
                                Ancestry(NameIphone, <<Desde(<<"8", "9", "9">>)>>))
    /\ Len(html.anchors[2].ancestors) = 4
    /\ NearestDesde(html.anchors[2]) = 0
    /\ Len(result) = 2
    /\ result[1].price = <<"8", "9", "9">>
    /\ result[1].name = <<"I", "p", "h", "o", "n", "e", " ", "1", "5">>

====
